---- MODULE Spec2Model ----
(***************************************************************************)
(* Model of comet-watcher (src/main.py): a folder watcher that scores      *)
(* translation files with an external model, keeps two in-memory           *)
(* dictionaries (all_results, skipped_records), rewrites three JSONL logs   *)
(* and an HTML report after every processed file, and rehydrates the        *)
(* dictionaries from the logs at process start.                             *)
(*                                                                         *)
(* Texts are TLA+ strings.  Scores are fixed-point integers: the scorer     *)
(* returns units of 10^-5, round(score, 4) yields units of 10^-4.          *)
(* A Python dict is a sequence of [k, v] entries in insertion order.        *)
(* Python's None is the empty tuple <<>>, an optional string s is <<s>>.    *)
(***************************************************************************)
EXTENDS Integers, Sequences, FiniteSets, TLC

(***************************************************************************)
(* Bounds of the model                                                     *)
(***************************************************************************)
MaxEdits == 2
MaxStarts == 2
MaxFaults == 1
MaxQueue == 2

(***************************************************************************)
(* Configuration (src/main.py lines 12-19)                                 *)
(***************************************************************************)
INPUT_FOLDER == "./translations"
WARNING_THRESHOLD == 8000

\* names the input directory may hold
Names == {"a.txt", "n.md"}

\* raw file texts, as the sequence of their lines (before strip)
Texts == { <<>>,
           <<" a", "">>,
           <<"a", "ba">>,
           <<"ab", "", " a ", "r">>,
           <<"b", "a">> }

\* what a name of the input directory can be
Absent == [kind |-> "absent"]
Dir == [kind |-> "dir"]
RegularFile(text) == [kind |-> "file", text |-> text]

\* values the external scorer can return, in units of 10^-5
Scores == {79990, 79994, 79996, 80000}

\* hash seeds a process can run with (PYTHONHASHSEED is random per process)
Seeds == {1, 2}

Threads == {"main", "observer"}

(***************************************************************************)
(* Strings                                                                 *)
(***************************************************************************)
IsSpace(c) == c = " "

RECURSIVE LStrip(_)
LStrip(s) == IF Len(s) > 0 /\ IsSpace(SubSeq(s, 1, 1))
             THEN LStrip(SubSeq(s, 2, Len(s)))
             ELSE s

RECURSIVE RStrip(_)
RStrip(s) == IF Len(s) > 0 /\ IsSpace(SubSeq(s, Len(s), Len(s)))
             THEN RStrip(SubSeq(s, 1, Len(s) - 1))
             ELSE s

\* str.strip()
Strip(s) == RStrip(LStrip(s))

\* str.endswith(suffix)
EndsWith(s, suffix) ==
    /\ Len(s) >= Len(suffix)
    /\ SubSeq(s, Len(s) - Len(suffix) + 1, Len(s)) = suffix

\* os.path.join(INPUT_FOLDER, fname)
PathJoin(folder, fname) == folder \o "/" \o fname

\* os.path.basename(path): what follows the last "/"
RECURSIVE Basename(_)
Basename(path) ==
    IF \E i \in 1..Len(path) : SubSeq(path, i, i) = "/"
    THEN Basename(SubSeq(path, 2, Len(path)))
    ELSE path

\* mutant: the lines are filtered but kept untrimmed
NonBlankLines_untrimmed(text) == SelectSeq(text, LAMBDA l : Strip(l) # "")

\* [line.strip() for line in f if line.strip()]
RECURSIVE NonBlankLines(_)
NonBlankLines(text) ==
    IF text = <<>> THEN <<>>
    ELSE IF Strip(Head(text)) # ""
         THEN <<Strip(Head(text))>> \o NonBlankLines(Tail(text))
         ELSE NonBlankLines(Tail(text))

(***************************************************************************)
(* hash(): str hashing is salted per process; hash("") is 0 for every seed. *)
(* The value is kept symbolic (seed and text), i.e. collision-free.         *)
(***************************************************************************)
HashStr(sd, s) == IF s = "" THEN "0" ELSE "h" \o ToString(sd) \o "_" \o s

\* f"{file}:{hash(source + mt)}"
CompositeKey(file, source, mt, sd) == file \o ":" \o HashStr(sd, source \o mt)

(***************************************************************************)
(* dict, in insertion order                                                *)
(***************************************************************************)
EmptyDict == <<>>
Keys(d) == {d[i].k : i \in 1..Len(d)}
DictValues(d) == [i \in 1..Len(d) |-> d[i].v]
DictPut(d, key, val) ==
    IF key \in Keys(d)
    THEN [i \in 1..Len(d) |-> IF d[i].k = key THEN [k |-> key, v |-> val] ELSE d[i]]
    ELSE Append(d, [k |-> key, v |-> val])
DictDel(d, key) == SelectSeq(d, LAMBDA e : e.k # key)

\* record.get(field, default)
Get(record, field, default) ==
    IF field \in DOMAIN record THEN record[field] ELSE default

(***************************************************************************)
(* JSON lines.  A line of a log is either the JSON text of one object,      *)
(* [json |-> fields], or a corrupted line json.loads cannot decode.        *)
(***************************************************************************)
CorruptLine == [corrupt |-> TRUE]
IsCorrupt(line) == "corrupt" \in DOMAIN line

\* mutant: an absent reference is written as the empty string
JsonEncode_none_as_empty(field, val) ==
    CASE field = "reference" ->
            [t |-> "string", s |-> IF val = <<>> THEN "" ELSE val[1]]
      [] field = "comet_score" -> [t |-> "number", n |-> val]
      [] field = "warning" -> [t |-> IF val THEN "true" ELSE "false"]
      [] field = "lines" -> [t |-> "array", a |-> val]
      [] OTHER -> [t |-> "string", s |-> val]

\* the JSON value json.dumps writes for a field's Python value
JsonEncode(field, val) ==
    CASE field = "reference" ->
            IF val = <<>> THEN [t |-> "null"] ELSE [t |-> "string", s |-> val[1]]
      [] field = "comet_score" -> [t |-> "number", n |-> val]
      [] field = "warning" -> [t |-> IF val THEN "true" ELSE "false"]
      [] field = "lines" -> [t |-> "array", a |-> val]
      [] OTHER -> [t |-> "string", s |-> val]

\* the Python value json.loads builds for a field's JSON value
JsonDecode(field, jv) ==
    CASE jv.t = "null" -> <<>>
      [] jv.t = "number" -> jv.n
      [] jv.t = "true" -> TRUE
      [] jv.t = "false" -> FALSE
      [] jv.t = "array" -> jv.a
      [] OTHER -> IF field = "reference" THEN <<jv.s>> ELSE jv.s

\* json.dumps(record, ensure_ascii=False)
Dumps(record) == [json |-> [f \in DOMAIN record |-> JsonEncode(f, record[f])]]

\* json.loads(line)
Loads(line) ==
    IF "json" \in DOMAIN line
    THEN [f \in DOMAIN line.json |-> JsonDecode(f, line.json[f])]
    ELSE JsonDecode("", line.value)

\* mutant: the log is keyed by file name and source only
ReadKey_ignoring_mt(record, sd) ==
    CompositeKey(Get(record, "file", "unknown"), Get(record, "source", ""), "", sd)

\* lines 54-57: the key _read_jsonl gives a decoded record
ReadKey(record, sd) ==
    CompositeKey(Get(record, "file", "unknown"),
                 Get(record, "source", ""), Get(record, "mt_output", ""), sd)

\* a line that is JSON but not an object: the text []
NotAnObject == [value |-> [t |-> "array", a |-> <<>>]]

\* an object whose source is a number: {"file": "a.txt", "source": 1,
\* "mt_output": "ba"}
NumericSource ==
    [json |-> [file |-> [t |-> "string", s |-> "a.txt"],
               source |-> [t |-> "number", n |-> 1],
               mt_output |-> [t |-> "string", s |-> "ba"]]]

\* lines somebody can put into a log other than by running this program
ForeignLines == {NotAnObject, NumericSource}

IsObject(line) == "json" \in DOMAIN line

\* the JSON type record.get(field, "") has in an object
TypeOrString(object, field) ==
    IF field \in DOMAIN object THEN object[field].t ELSE "string"

\* lines 54-56 raise something else than JSONDecodeError: .get on a value
\* that is no dict (AttributeError), or source + mt_output, or its hash, on
\* values that cannot be added or hashed (TypeError)
LineRaises(line) ==
    /\ ~IsCorrupt(line)
    /\ \/ ~IsObject(line)
       \/ LET a == TypeOrString(line.json, "source")
              b == TypeOrString(line.json, "mt_output")
          IN ~ \/ a = "string" /\ b = "string"
               \/ {a, b} \subseteq {"number", "true", "false"}

\* _read_jsonl(path) ends with an exception it does not catch
ReadRaises(lines) == \E n \in 1..Len(lines) : LineRaises(lines[n])

RECURSIVE ReadLines(_, _, _)
ReadLines(lines, sd, records) ==
    IF lines = <<>> THEN records
    ELSE LET line == Head(lines) IN
         ReadLines(Tail(lines), sd,
                   IF IsCorrupt(line) THEN records
                   ELSE DictPut(records, ReadKey(Loads(line), sd), Loads(line)))

\* _read_jsonl(path) in a process whose hash seed is sd; a log that does
\* not exist is the empty sequence of lines
_read_jsonl(lines, sd) == ReadLines(lines, sd, EmptyDict)

\* the lines _write_jsonl(data_dict, path) writes
_write_jsonl(data_dict) ==
    [i \in 1..Len(data_dict) |-> Dumps(data_dict[i].v)]

\* mutant: the warning log gets every record
WarningsOf_all(results) == results

\* {k:v for k,v in all_results.items() if v.get('warning')}
WarningsOf(results) == SelectSeq(results, LAMBDA e : Get(e.v, "warning", FALSE))

(***************************************************************************)
(* Scores and the report                                                   *)
(***************************************************************************)
\* round(score, 4): units of 10^-5 to units of 10^-4 (Scores holds no tie)
Round4(score) == (score + 5) \div 10

RECURSIVE SumScores(_)
SumScores(results) ==
    IF results = <<>> THEN 0
    ELSE Get(Head(results), "comet_score", 0) + SumScores(Tail(results))

\* mutant: the skipped files count as evaluated, and an empty store has no
\* average
generate_html_report_counting_skipped(results, skipped) ==
    LET rs == DictValues(results)
        total == Len(rs) + Len(DictValues(skipped))
    IN [total |-> total,
        warn_count |-> Len(SelectSeq(rs, LAMBDA r : Get(r, "warning", FALSE))),
        avg |-> IF Len(rs) # 0 THEN (2 * SumScores(rs) + total) \div (2 * total)
                ELSE -1,
        skipped |-> Len(DictValues(skipped))]

\* the KPIs generate_html_report renders
generate_html_report(results, skipped) ==
    LET rs == DictValues(results)
        total == Len(rs)
        warn_count == Len(SelectSeq(rs, LAMBDA r : Get(r, "warning", FALSE)))
    IN [total |-> total,
        warn_count |-> warn_count,
        avg |-> IF total # 0 THEN (2 * SumScores(rs) + total) \div (2 * total) ELSE 0,
        skipped |-> Len(DictValues(skipped))]

NoReport == [total |-> 0, warn_count |-> 0, avg |-> 0, skipped |-> 0]
BrokenReport == [total |-> -1, warn_count |-> -1, avg |-> -1, skipped |-> -1]

(***************************************************************************)
(* State                                                                   *)
(***************************************************************************)
VARIABLES
    fs,               \* the input directory: name -> Absent, Dir or a file
    out_log,          \* lines of OUTPUT_FILE
    warn_log,         \* lines of WARNING_FILE
    skip_log,         \* lines of SKIPPED_FILE
    report,           \* KPIs of REPORT_FILE
    pc,               \* position of the main thread
    seed,             \* hash seed of the running process
    all_results,      \* dict of result records
    skipped_records,  \* dict of skipped records
    todo,             \* names batch_process has still to visit
    passed,           \* names batch_process has passed to process_file
    observer,         \* observer thread: "off", "running", "stopped"
    stop,             \* observer.stop() was called
    queue,            \* events delivered by the watch, not yet dispatched
    call,             \* per thread: its process_file call
    edits,            \* directory changes so far
    starts,           \* process starts so far
    faults            \* failed writes and damaged logs so far

disk == <<out_log, warn_log, skip_log, report>>
memory == <<seed, all_results, skipped_records>>
threads == <<pc, todo, passed, observer, stop, queue, call>>
budget == <<edits, starts, faults>>
vars == <<fs, disk, memory, threads, budget>>

\* a thread's process_file call: "idle" (no call), "running" (the file has
\* been read, lines 189-242 are still to run) or "returned" (the call is
\* over and the caller has not moved on), with what it read, how it ended
\* and, for a scored file, what the scorer returned
NoCall == [state |-> "idle", path |-> "", text |-> <<>>, outcome |-> "none",
           save |-> "none", score |-> 0]

Init ==
    /\ fs = [n \in Names |-> Absent]
    /\ out_log = <<>> /\ warn_log = <<>> /\ skip_log = <<>>
    /\ report = NoReport
    /\ pc = "off"
    /\ seed = 1
    /\ all_results = EmptyDict
    /\ skipped_records = EmptyDict
    /\ todo = {}
    /\ passed = {}
    /\ observer = "off"
    /\ stop = FALSE
    /\ queue = <<>>
    /\ call = [t \in Threads |-> NoCall]
    /\ edits = 0 /\ starts = 0 /\ faults = 0

(***************************************************************************)
(* save_and_report: the four files are written in order; an I/O error in    *)
(* one of them leaves the earlier ones rewritten, the failing one as it     *)
(* was (open failed) or partly written, and the later ones untouched.       *)
(***************************************************************************)
\* a failed rewrite of a log: the write stops inside the last record; when
\* there is nothing to write only open() can fail, and the log is as it was
PartlyWritten(old, new) ==
    IF new = <<>> THEN old
    ELSE Append(SubSeq(new, 1, Len(new) - 1), CorruptLine)

SaveOutcomes(results, skipped) ==
    LET out == _write_jsonl(results)
        warn == _write_jsonl(WarningsOf(results))
        skip == _write_jsonl(skipped)
        rep == generate_html_report(results, skipped)
    IN {[ok |-> TRUE, out |-> out, warn |-> warn, skip |-> skip, report |-> rep]}
       \cup {[ok |-> FALSE, out |-> PartlyWritten(out_log, out),
               warn |-> warn_log, skip |-> skip_log, report |-> report],
              [ok |-> FALSE, out |-> out, warn |-> PartlyWritten(warn_log, warn),
               skip |-> skip_log, report |-> report],
              [ok |-> FALSE, out |-> out, warn |-> warn,
               skip |-> PartlyWritten(skip_log, skip), report |-> report],
              [ok |-> FALSE, out |-> out, warn |-> warn, skip |-> skip,
               report |-> BrokenReport]}

\* save_and_report() on the given dictionaries; o is what the file system
\* lets it do
save_and_report(o) ==
    /\ o.ok \/ faults < MaxFaults
    /\ out_log' = o.out
    /\ warn_log' = o.warn
    /\ skip_log' = o.skip
    /\ report' = o.report
    /\ faults' = IF o.ok THEN faults ELSE faults + 1

(***************************************************************************)
(* The input directory and the watch                                       *)
(***************************************************************************)
Event(type, name, isdir) ==
    [event_type |-> type, src_path |-> PathJoin(INPUT_FOLDER, name),
     is_directory |-> isdir]

\* the watch delivers the events of a change while the observer runs
Deliver(types, name, isdir) ==
    IF observer = "running" /\ ~stop
    THEN /\ Len(queue) + Len(types) <= MaxQueue
         /\ queue' = queue \o [i \in 1..Len(types) |->
                                   Event(types[i], name, isdir)]
    ELSE UNCHANGED queue

\* an editor writes a file: a new file is "created", and possibly
\* "modified" when its content is written; an existing one is "modified"
WriteFile(name, text) ==
    /\ edits < MaxEdits
    /\ fs[name].kind \in {"absent", "file"}
    /\ EndsWith(name, ".txt") \/ text = <<"a", "ba">>
    /\ fs' = [fs EXCEPT ![name] = RegularFile(text)]
    /\ \E types \in IF fs[name].kind = "absent"
                    THEN {<<"created">>, <<"created", "modified">>}
                    ELSE {<<"modified">>} :
           Deliver(types, name, FALSE)
    /\ edits' = edits + 1
    /\ UNCHANGED <<disk, memory, pc, todo, passed, observer, stop, call,
                   starts, faults>>

MakeDir(name) ==
    /\ edits < MaxEdits
    /\ EndsWith(name, ".txt")
    /\ fs[name].kind = "absent"
    /\ fs' = [fs EXCEPT ![name] = Dir]
    /\ Deliver(<<"created">>, name, TRUE)
    /\ edits' = edits + 1
    /\ UNCHANGED <<disk, memory, pc, todo, passed, observer, stop, call,
                   starts, faults>>

Remove(name) ==
    /\ edits < MaxEdits
    /\ EndsWith(name, ".txt")
    /\ fs[name].kind # "absent"
    /\ fs' = [fs EXCEPT ![name] = Absent]
    /\ Deliver(<<"deleted">>, name, fs[name].kind = "dir")
    /\ edits' = edits + 1
    /\ UNCHANGED <<disk, memory, pc, todo, passed, observer, stop, call,
                   starts, faults>>

\* somebody edits a log while the process is not running
Tamper(line) ==
    /\ pc = "off"
    /\ faults < MaxFaults
    /\ faults' = faults + 1
    /\ \/ out_log' = Append(out_log, line) /\ UNCHANGED skip_log
       \/ skip_log' = Append(skip_log, line) /\ UNCHANGED out_log
    /\ UNCHANGED <<fs, warn_log, report, memory, threads, edits, starts>>

(***************************************************************************)
(* process_file, in two steps: the file is read, then the rest runs.        *)
(***************************************************************************)
Returned(path, text, outcome, save) ==
    [state |-> "returned", path |-> path, text |-> text, outcome |-> outcome,
     save |-> save, score |-> 0]

\* lines 186-187: open and read; an error is caught at line 241
ProcessFileRead(t, file_path) ==
    LET entry == fs[Basename(file_path)] IN
    call' = [call EXCEPT ![t] =
                IF entry.kind = "file"
                THEN [state |-> "running", path |-> file_path, text |-> entry.text,
                      outcome |-> "none", save |-> "none", score |-> 0]
                ELSE Returned(file_path, <<>>, "readerror", "none")]

\* lines 194-198
SkippedRecord(file_basename, lines) ==
    [file |-> file_basename, reason |-> "Insufficient lines", lines |-> lines]

\* mutant: the warning flag compares the score before rounding
ResultRecord_unrounded_warning(file_basename, lines, score) ==
    [file |-> file_basename,
     source |-> lines[1],
     mt_output |-> lines[2],
     reference |-> IF Len(lines) > 2 THEN <<lines[3]>> ELSE <<>>,
     comet_score |-> Round4(score),
     warning |-> score < 10 * WARNING_THRESHOLD]

\* mutant: a score equal to the threshold is a warning too
ResultRecord_warning_at_threshold(file_basename, lines, score) ==
    [file |-> file_basename,
     source |-> lines[1],
     mt_output |-> lines[2],
     reference |-> IF Len(lines) > 2 THEN <<lines[3]>> ELSE <<>>,
     comet_score |-> Round4(score),
     warning |-> Round4(score) <= WARNING_THRESHOLD]

\* mutant: a file without a third line gets the empty string as reference
ResultRecord_empty_reference(file_basename, lines, score) ==
    [file |-> file_basename,
     source |-> lines[1],
     mt_output |-> lines[2],
     reference |-> IF Len(lines) > 2 THEN <<lines[3]>> ELSE <<"">>,
     comet_score |-> Round4(score),
     warning |-> Round4(score) < WARNING_THRESHOLD]

\* lines 204-225: the record of a scored file; score is what
\* model.predict(data).system_score returned
ResultRecord(file_basename, lines, score) ==
    LET src == lines[1]
        mt == lines[2]
        ref == IF Len(lines) > 2 THEN <<lines[3]>> ELSE <<>>
        score_rounded == Round4(score)
    IN [file |-> file_basename,
        source |-> src,
        mt_output |-> mt,
        reference |-> ref,
        comet_score |-> score_rounded,
        warning |-> score_rounded < WARNING_THRESHOLD]

\* line 217
RecordKey(file_basename, lines, sd) ==
    CompositeKey(file_basename, lines[1], lines[2], sd)

\* lines 235-237
RemoveSkipped(skipped, file_basename) ==
    IF file_basename \in Keys(skipped) THEN DictDel(skipped, file_basename)
    ELSE skipped

\* lines 189-242
ProcessFileRest(t) ==
    /\ call[t].state = "running"
    /\ LET file_path == call[t].path
           lines == NonBlankLines(call[t].text)
           file_basename == Basename(file_path)
       IN
       IF Len(lines) < 2
       THEN LET skipped == DictPut(skipped_records, file_basename,
                                   SkippedRecord(file_basename, lines))
            IN /\ skipped_records' = skipped
               /\ UNCHANGED all_results
               /\ \E o \in SaveOutcomes(all_results, skipped) :
                     /\ save_and_report(o)
                     /\ call' = [call EXCEPT ![t] =
                                    Returned(file_path, call[t].text, "skipped",
                                             IF o.ok THEN "ok" ELSE "failed")]
       ELSE \/ \* model.predict raises
               /\ call' = [call EXCEPT ![t] =
                              Returned(file_path, call[t].text, "scorefail", "none")]
               /\ UNCHANGED <<all_results, skipped_records, disk, faults>>
            \/ \E score \in Scores :
                 LET results == DictPut(all_results,
                                        RecordKey(file_basename, lines, seed),
                                        ResultRecord(file_basename, lines, score))
                     skipped == RemoveSkipped(skipped_records, file_basename)
                 IN /\ all_results' = results
                    /\ skipped_records' = skipped
                    /\ \E o \in SaveOutcomes(results, skipped) :
                          /\ save_and_report(o)
                          /\ call' = [call EXCEPT ![t] =
                                         [Returned(file_path, call[t].text, "scored",
                                                   IF o.ok THEN "ok" ELSE "failed")
                                             EXCEPT !.score = score]]
    /\ UNCHANGED <<fs, seed, pc, todo, passed, observer, stop, queue, edits, starts>>

\* the call is over: the caller goes on (line 263, or the handler returns)
ProcessFileReturn(t) ==
    /\ call[t].state = "returned"
    /\ call' = [call EXCEPT ![t] = NoCall]
    /\ UNCHANGED <<fs, disk, memory, pc, todo, passed, observer, stop, queue, budget>>

(***************************************************************************)
(* The main thread (lines 265-288)                                         *)
(***************************************************************************)
\* the interpreter starts: a fresh hash seed, lines 39-40
Start ==
    /\ pc \in {"off", "exit", "aborted"}
    /\ starts < MaxStarts
    /\ starts' = starts + 1
    /\ \E sd \in Seeds : seed' = sd
    /\ all_results' = EmptyDict
    /\ skipped_records' = EmptyDict
    /\ pc' = "boot"
    /\ todo' = {}
    /\ passed' = {}
    /\ observer' = "off"
    /\ stop' = FALSE
    /\ queue' = <<>>
    /\ call' = [t \in Threads |-> NoCall]
    /\ UNCHANGED <<fs, disk, edits, faults>>

\* lines 269-270
Load ==
    /\ pc = "boot"
    /\ IF ReadRaises(out_log) \/ ReadRaises(skip_log)
       THEN \* the exception ends the process
            /\ pc' = "aborted"
            /\ seed' = 1
            /\ UNCHANGED <<all_results, skipped_records>>
       ELSE /\ all_results' = _read_jsonl(out_log, seed)
            /\ skipped_records' = _read_jsonl(skip_log, seed)
            /\ pc' = "loaded"
            /\ UNCHANGED seed
    /\ UNCHANGED <<fs, disk, todo, passed, observer, stop, queue, call, budget>>

\* line 260: os.listdir(INPUT_FOLDER)
BatchList ==
    /\ pc = "loaded"
    /\ todo' = {n \in Names : fs[n].kind # "absent"}
    /\ passed' = {}
    /\ pc' = "batch"
    /\ UNCHANGED <<fs, disk, memory, observer, stop, queue, call, budget>>

\* lines 260-263: the next name of the listing, in whatever order it has
BatchNext(fname) ==
    /\ pc = "batch"
    /\ call["main"].state = "idle"
    /\ fname \in todo
    /\ todo' = todo \ {fname}
    /\ IF EndsWith(fname, ".txt")
       THEN /\ ProcessFileRead("main", PathJoin(INPUT_FOLDER, fname))
            /\ passed' = passed \cup {fname}
       ELSE UNCHANGED <<call, passed>>
    /\ UNCHANGED <<fs, disk, memory, pc, observer, stop, queue, budget>>

\* lines 274-278: observer.start()
StartObserver ==
    /\ pc = "batch"
    /\ todo = {}
    /\ call["main"].state = "idle"
    /\ observer' = "running"
    /\ pc' = "watch"
    /\ passed' = {}
    /\ UNCHANGED <<fs, disk, memory, todo, stop, queue, call, budget>>

\* lines 283-285: KeyboardInterrupt in the sleep loop, observer.stop(); the
\* events still queued are never dispatched
Interrupt ==
    /\ pc = "watch"
    /\ stop' = TRUE
    /\ queue' = <<>>
    /\ pc' = "join"
    /\ UNCHANGED <<fs, disk, memory, todo, passed, observer, call, budget>>

\* mutant: the main thread does not wait for the observer thread
JoinReturns_without_waiting == TRUE

\* line 286: observer.join() returns once the observer thread has ended
JoinReturns == observer = "stopped"

Join ==
    /\ pc = "join"
    /\ JoinReturns
    /\ pc' = "flush"
    /\ UNCHANGED <<fs, disk, memory, todo, passed, observer, stop, queue, call, budget>>

\* line 287: the final save_and_report(); an error here ends the process
FinalFlush ==
    /\ pc = "flush"
    /\ \E o \in SaveOutcomes(all_results, skipped_records) : save_and_report(o)
    /\ pc' = "exit"
    /\ UNCHANGED <<fs, memory, todo, passed, observer, stop, queue, call, edits, starts>>

\* the process is killed (or interrupted outside the sleep loop)
Kill ==
    /\ pc \notin {"off", "exit", "aborted"}
    /\ starts < MaxStarts
    /\ pc' = "off"
    /\ all_results' = EmptyDict
    /\ skipped_records' = EmptyDict
    /\ todo' = {}
    /\ passed' = {}
    /\ observer' = "off"
    /\ stop' = FALSE
    /\ queue' = <<>>
    /\ call' = [t \in Threads |-> NoCall]
    /\ seed' = 1
    /\ UNCHANGED <<fs, disk, budget>>

(***************************************************************************)
(* The observer thread: events are dispatched one at a time, oldest first   *)
(***************************************************************************)
NextEvent(q) == Head(q)
RestOfQueue(q) == Tail(q)

\* on_created (246-249) and on_modified (251-255); other events are ignored
Dispatch ==
    /\ observer = "running"
    /\ ~stop
    /\ call["observer"].state = "idle"
    /\ queue # <<>>
    /\ LET event == NextEvent(queue) IN
       /\ queue' = RestOfQueue(queue)
       /\ IF /\ event.event_type \in {"created", "modified"}
             /\ ~event.is_directory
             /\ EndsWith(event.src_path, ".txt")
          THEN ProcessFileRead("observer", event.src_path)
          ELSE UNCHANGED call
    /\ UNCHANGED <<fs, disk, memory, pc, todo, passed, observer, stop, budget>>

\* the observer thread ends after stop(), once its current handler returned
ObserverExit ==
    /\ observer = "running"
    /\ stop
    /\ call["observer"].state = "idle"
    /\ observer' = "stopped"
    /\ UNCHANGED <<fs, disk, memory, pc, todo, passed, stop, queue, call, budget>>

Next ==
    \/ \E name \in Names, text \in Texts : WriteFile(name, text)
    \/ \E name \in Names : MakeDir(name)
    \/ \E name \in Names : Remove(name)
    \/ \E line \in ForeignLines : Tamper(line)
    \/ Start
    \/ Load
    \/ BatchList
    \/ \E fname \in Names : BatchNext(fname)
    \/ \E t \in Threads : ProcessFileRest(t)
    \/ \E t \in Threads : ProcessFileReturn(t)
    \/ StartObserver
    \/ Dispatch
    \/ Interrupt
    \/ ObserverExit
    \/ Join
    \/ FinalFlush
    \/ Kill

Spec == Init /\ [][Next]_vars

(***************************************************************************)
(* Properties                                                              *)
(***************************************************************************)
Running == pc \notin {"off", "boot", "aborted"}

\* thread t is back from a process_file call that ended the given way
Ended(t, outcome) == call[t].state = "returned" /\ call[t].outcome = outcome

\* thread t is back from a call that scored its file and persisted it
Succeeded(t) == Ended(t, "scored") /\ call[t].save = "ok"

FileOfCall(t) == Basename(call[t].path)

\* the records a dictionary holds for a file name
RecordsOf(d, file) == {i \in 1..Len(d) : d[i].v.file = file}

\* C1: whenever process_file has completed successfully on a file (two or
\* more non-blank lines, scored and persisted), also after restarts, the
\* Skipped Store holds no record of that file and the Result Store holds one.
C1_NoSkippedLeftOver ==
    \A t \in Threads :
        Succeeded(t) =>
            /\ RecordsOf(skipped_records, FileOfCall(t)) = {}
            /\ RecordsOf(all_results, FileOfCall(t)) # {}

\* C9: in every state the Skipped Store holds at most one record per file
\* name, also after a restart that rehydrated it and re-processed the files.
C9_OneSkippedRecordPerFile ==
    \A i, j \in 1..Len(skipped_records) :
        skipped_records[i].v.file = skipped_records[j].v.file => i = j

\* the non-blank lines of a text, trimmed
TrimmedLines(text) ==
    LET kept == SelectSeq(text, LAMBDA l : Strip(l) # "")
    IN [i \in 1..Len(kept) |-> Strip(kept[i])]

\* records a and b are of the same file, source and MT output
SameContent(a, b) ==
    a.file = b.file /\ a.source = b.source /\ a.mt_output = b.mt_output

\* the decoded records of the lines of a log that are not corrupted
RECURSIVE Decoded(_)
Decoded(lines) ==
    IF lines = <<>> THEN <<>>
    ELSE IF IsCorrupt(Head(lines)) THEN Decoded(Tail(lines))
         ELSE <<Loads(Head(lines))>> \o Decoded(Tail(lines))

\* thread t takes the step that ends its process_file call
Ends(t) == call[t].state = "running" /\ call'[t].state = "returned"

C2_ExactlyOne ==
    /\ \A i, j \in 1..Len(all_results) :
          SameContent(all_results[i].v, all_results[j].v) => i = j
    /\ \A t \in Threads :
          Ended(t, "scored") =>
             \E i \in 1..Len(all_results) :
                /\ all_results[i].v.file = FileOfCall(t)
                /\ all_results[i].v.source = TrimmedLines(call[t].text)[1]
                /\ all_results[i].v.mt_output = TrimmedLines(call[t].text)[2]

C2_NoGrowth ==
    \A t \in Threads :
        (/\ Ends(t)
         /\ call'[t].outcome = "scored"
         /\ \E i \in 1..Len(all_results) :
               /\ all_results[i].v.file = FileOfCall(t)
               /\ all_results[i].v.source = TrimmedLines(call[t].text)[1]
               /\ all_results[i].v.mt_output = TrimmedLines(call[t].text)[2])
        => Len(all_results') = Len(all_results)

\* C2: key stability: the Result Store never holds two records of the same
\* (file, source, MT output), a scored file has its record there, and
\* scoring a content that already has a record (a second event, or a batch
\* run over a rehydrated store) does not make the store grow.
C2_KeyStability == []C2_ExactlyOne /\ [][C2_NoGrowth]_vars

\* a file was scored a second time with the same source and MT output: the
\* warning log (its rewrite failed) still holds the record of the first
\* scoring, and the store holds one record
C2_ScoredTwice ==
    \E t \in Threads :
        /\ Ended(t, "scored")
        /\ Len(all_results) = 1
        /\ \E n \in 1..Len(warn_log) :
              /\ ~IsCorrupt(warn_log[n])
              /\ SameContent(Loads(warn_log[n]), all_results[1].v)
              /\ Loads(warn_log[n]) # all_results[1].v

\* C3: when a file is scored with a source or MT output that differs from
\* those of a record the Result Store holds for it, the new record goes
\* under another key and the earlier record is still in the store.
C3_ChangedContentKeepsFirst ==
    [][\A t \in Threads :
         (Ends(t) /\ call'[t].outcome = "scored") =>
            \A i \in 1..Len(all_results) :
               (/\ all_results[i].v.file = FileOfCall(t)
                /\ \/ all_results[i].v.source # TrimmedLines(call[t].text)[1]
                   \/ all_results[i].v.mt_output # TrimmedLines(call[t].text)[2])
               => \E j \in 1..Len(all_results') : all_results'[j] = all_results[i]
      ]_vars

\* C4: a call that read fewer than two non-blank lines returns normally as
\* "skipped": the Result Store is as before, the Skipped Store holds under
\* the file's name the record with exactly the trimmed non-blank lines and
\* the reason, and save_and_report was called (and, when it succeeded, the
\* skipped log holds the Skipped Store).
C4_InsufficientLines ==
    [][\A t \in Threads :
         (Ends(t) /\ Len(TrimmedLines(call[t].text)) < 2) =>
            /\ call'[t].outcome = "skipped"
            /\ all_results' = all_results
            /\ \E i \in 1..Len(skipped_records') :
                  /\ skipped_records'[i].k = FileOfCall(t)
                  /\ skipped_records'[i].v =
                        [file |-> FileOfCall(t), reason |-> "Insufficient lines",
                         lines |-> TrimmedLines(call[t].text)]
            /\ call'[t].save \in {"ok", "failed"}
            /\ call'[t].save = "ok" =>
                  Decoded(skip_log') = DictValues(skipped_records')
      ]_vars

\* a file with an earlier result record was skipped with one padded line
C4_SkippedAfterResult ==
    \E t \in Threads :
        /\ Ended(t, "skipped")
        /\ call[t].save = "ok"
        /\ RecordsOf(all_results, FileOfCall(t)) # {}
        /\ \E i \in 1..Len(skipped_records) :
              skipped_records[i].k = FileOfCall(t)
              /\ skipped_records[i].v.lines = <<"a">>
              /\ call[t].text # <<"a">>

Raised(c) == c.outcome \in {"readerror", "scorefail"} \/ c.save = "failed"

\* C6: whenever process_file catches an exception (the file cannot be read,
\* the scorer fails, or writing the logs or the report fails), the Result
\* Store and the Skipped Store are what they were before the call.
C6_NoTraceOnException ==
    [][\A t \in Threads :
         (call[t].state # "returned" /\ call'[t].state = "returned"
          /\ Raised(call'[t]))
         => (all_results' = all_results /\ skipped_records' = skipped_records)
      ]_vars

\* a log holds exactly the records of a dictionary
HoldsExactly(log, d) ==
    /\ \A n \in 1..Len(log) : ~IsCorrupt(log[n])
    /\ Decoded(log) = DictValues(d)

\* C7: after every process_file call that changed a store, the result log
\* holds exactly the records of the Result Store and the skipped log
\* exactly those of the Skipped Store.
C7_LogsEqualStores ==
    \A t \in Threads :
        (call[t].state = "returned" /\ call[t].outcome \in {"skipped", "scored"})
        => /\ HoldsExactly(out_log, all_results)
           /\ HoldsExactly(skip_log, skipped_records)

\* what reading back the written Result Store gives a process of seed sd
ReadBack(sd) == _read_jsonl(_write_jsonl(all_results), sd)

\* C8 as stated: writing the Result Store and reading the log back gives a
\* mapping with the same keys and the same records, whichever process reads.
C8_RoundTripSameKeys ==
    Running => \A sd \in Seeds : ReadBack(sd) = all_results

\* C8, amended: reading the written Result Store back gives the same records
\* with the same field values in the same order, each under the key
\* process_file gives it in the reading process, so the keys are the same
\* when the reader has the writer's hash seed; and a store just loaded holds
\* the records of all lines of the log that are not corrupted.
C8_RoundTrip ==
    /\ Running =>
          \A sd \in Seeds :
             LET back == ReadBack(sd)
             IN /\ DictValues(back) = DictValues(all_results)
                /\ \A i \in 1..Len(back) :
                      back[i].k =
                          RecordKey(back[i].v.file,
                                    <<back[i].v.source, back[i].v.mt_output>>, sd)
                /\ sd = seed => back = all_results
    /\ pc = "loaded" => DictValues(all_results) = Decoded(out_log)

\* a store just loaded from a log with a corrupted line and a good one, the
\* good record having no reference
C8_LoadedPastCorruptLine ==
    /\ pc = "loaded"
    /\ \E n \in 1..Len(out_log) : IsCorrupt(out_log[n])
    /\ \E i \in 1..Len(all_results) : all_results[i].v.reference = <<>>

C10_OneAtATime ==
    /\ ~(call["main"].state = "running" /\ call["observer"].state = "running")
    /\ pc \in {"boot", "loaded", "batch"} =>
          (observer = "off" /\ call["observer"].state = "idle")
    /\ call["main"].state # "idle" => pc = "batch"
    /\ pc \in {"flush", "exit"} =>
          (observer = "stopped" /\ call["observer"].state = "idle")

C10_ArrivalOrder ==
    (/\ observer = "running" /\ observer' = "running" /\ ~stop'
     /\ Len(queue') < Len(queue))
    => /\ queue' = Tail(queue)
       /\ call'["observer"].state # "idle" =>
             call'["observer"].path = Head(queue).src_path

\* C10: process_file runs in one thread at a time: the batch run is over
\* before the observer starts, the final flush runs after the observer
\* thread has ended, and the observer thread handles the events one at a
\* time, oldest first.
C10_Serialized == []C10_OneAtATime /\ [][C10_ArrivalOrder]_vars

\* the interrupt came while a handler was running, with the main thread
\* waiting in join()
C10_JoinWaitsForHandler ==
    pc = "join" /\ stop /\ call["observer"].state = "running"

\* C11: after the interrupt the observer is stopped before the final flush
\* starts, no event is handled from then on, and once the process has
\* exited the logs and the report on disk hold the final in-memory stores.
C11_FlushedAtExit ==
    /\ pc \in {"flush", "exit"} =>
          /\ observer = "stopped"
          /\ \A t \in Threads : call[t].state = "idle"
          /\ queue = <<>>
    /\ pc = "exit" =>
          /\ HoldsExactly(out_log, all_results)
          /\ HoldsExactly(skip_log, skipped_records)
          /\ HoldsExactly(warn_log, WarningsOf(all_results))
          /\ report = generate_html_report(all_results, skipped_records)

\* C12: loading a log never ends the start of the process, whatever lines
\* the log holds.
C12_LoadNeverAborts == pc # "aborted"

\* the records a log holds
RecordsIn(log) == {Decoded(log)[n] : n \in 1..Len(Decoded(log))}

\* the warning log is complete and holds the warning records of the result
\* log, no more and no less
WarningLogDerived ==
    /\ \A n \in 1..Len(warn_log) : ~IsCorrupt(warn_log[n])
    /\ RecordsIn(warn_log) = {r \in RecordsIn(out_log) : Get(r, "warning", FALSE)}

\* save_and_report has just completed in the final flush
FlushCompletes == pc = "flush" /\ pc' = "exit" /\ faults' = faults

\* C13: after every completed save_and_report (inside process_file or as the
\* final flush), the warning log holds exactly the records of the result
\* log whose warning flag is true.
C13_WarningLogIsFilter ==
    /\ [](\A t \in Threads :
            (call[t].state = "returned" /\ call[t].save = "ok")
               => WarningLogDerived)
    /\ [][FlushCompletes => WarningLogDerived']_vars

C13_SavedBothKinds ==
    /\ \E t \in Threads : call[t].state = "returned" /\ call[t].save = "ok"
    /\ \E r \in RecordsIn(out_log) : r.warning
    /\ \E r \in RecordsIn(out_log) : ~r.warning
    /\ RecordsIn(warn_log) # {}

\* the Result Record the call of thread t has just built
RecordOfCall(t) ==
    LET key == RecordKey(FileOfCall(t), NonBlankLines(call[t].text), seed)
        i == CHOOSE n \in 1..Len(all_results) : all_results[n].k = key
    IN all_results[i].v

\* the multiple of 10^-4 nearest to a score s, in units of 10^-4
Nearest(s) ==
    CHOOSE m \in {s \div 10, s \div 10 + 1} : 2 * (10 * m - s) \in -9..10

\* C14 as stated: the record of a scored file is a warning exactly when the
\* scalar the scorer returned is below the threshold.
C14_WarningIffBelowThreshold ==
    \A t \in Threads :
        Ended(t, "scored") =>
            RecordOfCall(t).warning = (call[t].score < 10 * WARNING_THRESHOLD)

\* C14, amended: the record of a scored file is a warning exactly when the
\* scalar the scorer returned, rounded to the nearest multiple of 10^-4, is
\* below the threshold; 0.7999 is a warning and 0.8000 is not.
C14_WarningIffRoundedBelowThreshold ==
    \A t \in Threads :
        Ended(t, "scored") =>
            /\ RecordOfCall(t).warning = (Nearest(call[t].score) < WARNING_THRESHOLD)
            /\ call[t].score = 79990 => RecordOfCall(t).warning = TRUE
            /\ call[t].score = 80000 => RecordOfCall(t).warning = FALSE

\* a score just below the threshold that rounds up to it was not flagged
C14_RoundedUpToThreshold ==
    \E t \in Threads :
        /\ Ended(t, "scored")
        /\ call[t].score = 79996
        /\ RecordOfCall(t).warning = FALSE

\* the KPIs of the report on disk are those of the Result Store
ReportMatchesStore ==
    /\ report.total = Cardinality(Keys(all_results))
    /\ report.warn_count =
          Cardinality({k \in Keys(all_results) :
                         \E i \in 1..Len(all_results) :
                            all_results[i].k = k /\ all_results[i].v.warning})
    /\ Keys(all_results) = {} => report.avg = 0

\* C15: in every report generate_html_report has written, "Total evaluated"
\* is the number of distinct keys of the Result Store at that moment,
\* "Below threshold" the number of those records whose warning flag is true,
\* and "Average score" is 0.0 when the Result Store is empty.
C15_ReportKPIs ==
    /\ [](\A t \in Threads :
            (call[t].state = "returned" /\ call[t].save = "ok")
               => ReportMatchesStore)
    /\ [][FlushCompletes => ReportMatchesStore']_vars

\* a report written for two records, one of them a warning
C15_ReportOfTwo ==
    /\ \E t \in Threads : call[t].state = "returned" /\ call[t].save = "ok"
    /\ report.total = 2
    /\ report.warn_count = 1

\* C16: the record of a file with exactly two non-blank lines has reference
\* null (<<>>), not the empty string (<<"">>), and the record of a file with
\* three or more has its third line; a null reference is written as JSON
\* null, and a store just loaded holds a null reference for every line of the
\* result log that has one.
C16_Reference ==
    /\ \A t \in Threads :
          Ended(t, "scored") =>
             LET lines == TrimmedLines(call[t].text)
             IN /\ Len(lines) = 2 => RecordOfCall(t).reference = <<>>
                /\ Len(lines) > 2 => RecordOfCall(t).reference = <<lines[3]>>
    /\ \A i \in 1..Len(all_results) :
          all_results[i].v.reference = <<>> =>
             /\ Dumps(all_results[i].v).json.reference = [t |-> "null"]
             /\ Loads(Dumps(all_results[i].v)).reference = <<>>
    /\ pc = "loaded" =>
          \A n \in 1..Len(out_log) :
             (~IsCorrupt(out_log[n]) /\ out_log[n].json.reference.t = "null")
                => \E i \in 1..Len(all_results) :
                      /\ SameContent(all_results[i].v, Loads(out_log[n]))
                      /\ all_results[i].v.reference = <<>>

\* a store just loaded from a log that holds the record of a two-line file
\* and the record of a file with a third line
C16_LoadedNullAndThirdLine ==
    /\ pc = "loaded"
    /\ \E i, j \in 1..Len(all_results) :
          /\ all_results[i].v.reference = <<>>
          /\ all_results[j].v.reference = <<"r">>

\* the content versions (file, source, MT output) a sequence of records holds
Versions(records) ==
    {<<records[i].file, records[i].source, records[i].mt_output>> :
        i \in 1..Len(records)}

\* a step inside one process run, after the stores were loaded
SameRun == Running /\ Running'

\* C17: within one process run the set of keys of the Result Store only
\* grows, so the record of every earlier content version of a file stays in
\* the Result Store, and in the result log after every completed save.
C17_OnlyGrows ==
    /\ [][SameRun =>
            /\ Keys(all_results) \subseteq Keys(all_results')
            /\ Versions(DictValues(all_results))
                  \subseteq Versions(DictValues(all_results'))]_vars
    /\ [](\A t \in Threads :
            (call[t].state = "returned" /\ call[t].save = "ok")
               => Versions(DictValues(all_results))
                     \subseteq Versions(Decoded(out_log)))

\* the matching files the input directory holds
MatchingFiles == {n \in Names : EndsWith(n, ".txt") /\ fs[n].kind = "file"}

\* C18: the stores are loaded before any file is processed, the batch is
\* over before the observer starts, and every matching file the input
\* directory holds when the observer starts has been passed to process_file.
C18_StartupCoverage ==
    /\ [](pc \in {"boot", "loaded"} =>
             /\ \A t \in Threads : call[t].state = "idle"
             /\ passed = {})
    /\ [](pc \in {"boot", "loaded", "batch"} => observer = "off")
    /\ [][(pc = "batch" /\ pc' = "watch") =>
             /\ todo = {}
             /\ call["main"].state = "idle"
             /\ MatchingFiles \subseteq passed]_vars

====
